---- MODULE Spec2Model ----
(***************************************************************************)
(* Receipt scanning backend (src/app.py): the deterministic scan           *)
(* (scan_receipt, /api/scan) and the AI-assisted scan (scan_receipt_ai,    *)
(* /api/scan-ai, through parse_receipt_with_ai).                           *)
(*                                                                         *)
(* Strings are sequences of one-character strings, so that splitlines,     *)
(* strip, lower and the regular expressions of the source are computed     *)
(* character by character.  Amounts of money are whole cents (the source   *)
(* parses two-decimal literals into floats), confidences are whole         *)
(* percents (the source rounds them to two decimals).                      *)
(***************************************************************************)
EXTENDS Integers, Sequences, FiniteSets

\* ------------------------------------------------------------------ bounds
MaxLines == 2
MaxTokens == 2
MaxLabels == 2

\* --------------------------------------------------------------- constants
\* MIN_OCR_CONFIDENCE, in percent (default "0.35").
MIN_OCR_CONFIDENCE == 35

\* The score get_tesseract_confidence returns when no token counts (0.3).
FALLBACK_CONFIDENCE == 30

CATEGORIES ==
    {"Groceries", "Dining", "Transport", "Entertainment",
     "Shopping", "Health", "Utilities", "Uncategorized"}

\* ------------------------------------------------------------ characters
Min(S) == CHOOSE x \in S : \A y \in S : x <= y

Max(S) == CHOOSE x \in S : \A y \in S : x >= y

Digits == {"0", "1", "2", "3", "4", "5", "6", "7", "8", "9"}

IsDigit(c) == c \in Digits

DigitVal(c) ==
    CASE c = "0" -> 0 [] c = "1" -> 1 [] c = "2" -> 2 [] c = "3" -> 3
      [] c = "4" -> 4 [] c = "5" -> 5 [] c = "6" -> 6 [] c = "7" -> 7
      [] c = "8" -> 8 [] c = "9" -> 9

\* \s and the characters str.strip() removes.
IsSpace(c) == c \in {" ", "\t", "\n"}

UpperChars ==
    <<"A", "B", "C", "D", "E", "F", "G", "H", "I", "J", "K", "L", "M",
      "N", "O", "P", "Q", "R", "S", "T", "U", "V", "W", "X", "Y", "Z">>

LowerChars ==
    <<"a", "b", "c", "d", "e", "f", "g", "h", "i", "j", "k", "l", "m",
      "n", "o", "p", "q", "r", "s", "t", "u", "v", "w", "x", "y", "z">>

UpperSet == {UpperChars[k] : k \in 1..26}

LowerOf == [c \in UpperSet |-> LowerChars[CHOOSE k \in 1..26 : UpperChars[k] = c]]

LowerChar(c) == IF c \in UpperSet THEN LowerOf[c] ELSE c

\* str.lower()
Lower(s) == [k \in 1..Len(s) |-> LowerChar(s[k])]

\* `w in s` for strings
Contains(s, w) ==
    \E k \in 0..(Len(s) - Len(w)) : \A j \in 1..Len(w) : s[k + j] = w[j]

\* str.strip()
Strip(s) ==
    LET keep == {k \in 1..Len(s) : ~IsSpace(s[k])}
    IN  IF keep = {} THEN <<>> ELSE SubSeq(s, Min(keep), Max(keep))

\* str.splitlines(), for the line break "\n"
RECURSIVE SplitLines(_)
SplitLines(s) ==
    IF s = <<>> THEN <<>>
    ELSE LET nl == {k \in 1..Len(s) : s[k] = "\n"}
         IN  IF nl = {} THEN <<s>>
             ELSE <<SubSeq(s, 1, Min(nl) - 1)>>
                      \o SplitLines(SubSeq(s, Min(nl) + 1, Len(s)))

\* int() of a string of digits
RECURSIVE ParseInt(_)
ParseInt(s) ==
    IF s = <<>> THEN 0
    ELSE 10 * ParseInt(SubSeq(s, 1, Len(s) - 1)) + DigitVal(s[Len(s)])

\* float() of "<digits><sep><2 digits>", in cents
ParseCents(s) ==
    100 * ParseInt(SubSeq(s, 1, Len(s) - 3)) + ParseInt(SubSeq(s, Len(s) - 1, Len(s)))

\* The end of the longest run of digits that starts at k (k - 1 when s[k] is
\* no digit).
DigitRunEnd(s, k) ==
    LET stop == {j \in k..Len(s) : ~IsDigit(s[j])}
    IN  IF stop = {} THEN Len(s) ELSE Min(stop) - 1

\* The start of the longest run of digits that ends at k.
DigitRunStart(s, k) ==
    LET stop == {j \in 1..k : ~IsDigit(s[j])}
    IN  IF stop = {} THEN 1 ELSE Max(stop) + 1

\* ------------------------------------------------------ regular expressions
\* r'\d+\.\d{2}' matched at position k: the end of the match, 0 for none.
DecimalEndAt(s, k) ==
    LET e == DigitRunEnd(s, k)
    IN  IF /\ k <= Len(s)
           /\ e >= k
           /\ e + 3 <= Len(s)
           /\ s[e + 1] = "."
           /\ IsDigit(s[e + 2])
           /\ IsDigit(s[e + 3])
        THEN e + 3 ELSE 0

\* re.findall(r'\d+\.\d{2}', s), scanning from position k
RECURSIVE FindAllDecimals(_, _)
FindAllDecimals(s, k) ==
    LET starts == {j \in k..Len(s) : DecimalEndAt(s, j) > 0}
    IN  IF starts = {} THEN <<>>
        ELSE LET a == Min(starts)
                 e == DecimalEndAt(s, a)
             IN  <<SubSeq(s, a, e)>> \o FindAllDecimals(s, e + 1)

\* re.search(r'\d{1,2}[/-]\d{1,2}[/-]\d{2,4}', s)
DateSearch(s) ==
    \E k \in 1..Len(s) : \E a \in 1..2 : \E b \in 1..2 :
        LET n == k + a + b + 3
        IN  /\ n <= Len(s)
            /\ \A j \in k..(k + a - 1) : IsDigit(s[j])
            /\ s[k + a] \in {"/", "-"}
            /\ \A j \in (k + a + 1)..(k + a + b) : IsDigit(s[j])
            /\ s[k + a + b + 1] \in {"/", "-"}
            /\ IsDigit(s[n - 1])
            /\ IsDigit(s[n])

\* Whether t, whole, matches r'\s*[\$]?\s*(\d+[.,]\d{2})$'
PriceTail(t) ==
    LET n == Len(t)
        a == DigitRunStart(t, n - 3)
    IN  /\ n >= 4
        /\ IsDigit(t[n])
        /\ IsDigit(t[n - 1])
        /\ t[n - 2] \in {".", ","}
        /\ a <= n - 3
        /\ \A j \in 1..(a - 1) : IsSpace(t[j]) \/ t[j] = "$"
        /\ Cardinality({j \in 1..(a - 1) : t[j] = "$"}) <= 1

\* re.search(r'(.*?)\s*[\$]?\s*(\d+[.,]\d{2})$', s): the lazy group 1 is the
\* shortest prefix after which the rest of the line matches.
PriceSearch(s) ==
    LET cuts == {k \in 0..Len(s) : PriceTail(SubSeq(s, k + 1, Len(s)))}
    IN  IF cuts = {} THEN [matched |-> FALSE, group1 |-> <<>>, group2 |-> <<>>]
        ELSE LET k == Min(cuts)
             IN  [matched |-> TRUE,
                  group1  |-> SubSeq(s, 1, k),
                  group2  |-> SubSeq(s, DigitRunStart(s, Len(s) - 3), Len(s))]

\* re.match(r'(\d+)\s*x\s*(.*)', s, re.IGNORECASE)
QtyMatch(s) ==
    LET e    == DigitRunEnd(s, 1)
        rest == {j \in (e + 1)..Len(s) : ~IsSpace(s[j])}
        x    == IF rest = {} THEN 0 ELSE Min(rest)
        tail == {j \in (x + 1)..Len(s) : ~IsSpace(s[j])}
    IN  IF e >= 1 /\ x > 0 /\ LowerChar(s[x]) = "x"
        THEN [matched |-> TRUE,
              group1  |-> SubSeq(s, 1, e),
              group2  |-> IF tail = {} THEN <<>> ELSE SubSeq(s, Min(tail), Len(s))]
        ELSE [matched |-> FALSE, group1 |-> <<>>, group2 |-> <<>>]

\* ------------------------------------------------------- confidence scorer
\* One entry of pytesseract's image_to_data: conf is -1..100, text the word.
OcrTokens ==
    {[conf |-> -1, text |-> <<>>],
     [conf |-> 34, text |-> <<"a">>],
     [conf |-> 35, text |-> <<"a">>],
     [conf |-> 36, text |-> <<"a">>],
     [conf |-> 36, text |-> <<" ">>]}

RECURSIVE SeqsUpTo(_, _)
SeqsUpTo(S, n) ==
    IF n = 0 THEN {<<>>}
    ELSE LET shorter == SeqsUpTo(S, n - 1)
         IN  shorter \cup {Append(q, x) : q \in {r \in shorter : Len(r) = n - 1}, x \in S}

RECURSIVE SumSeq(_)
SumSeq(q) == IF q = <<>> THEN 0 ELSE q[1] + SumSeq(Tail(q))

\* SelectSeq with the test written out
RECURSIVE Confidences(_)
Confidences(data) ==
    IF data = <<>> THEN <<>>
    ELSE IF data[1].conf > 0 /\ Strip(data[1].text) # <<>>
         THEN <<data[1].conf>> \o Confidences(Tail(data))
         ELSE Confidences(Tail(data))

\* round(p / q, 2) for an amount p and a divisor q, in hundredths: the nearest
\* hundredth, and at an exact half either neighbour (the float quotient is the
\* binary number nearest the half, which lies above it or below it).
RoundDiv(p, q) ==
    LET f == p \div q
        r == p % q
    IN  IF 2 * r < q THEN {f} ELSE IF 2 * r > q THEN {f + 1} ELSE {f, f + 1}

\* get_tesseract_confidence: the scores it can return, in percent.
get_tesseract_confidence(data) ==
    LET confidences == Confidences(data)
    IN  IF confidences = <<>> THEN {FALLBACK_CONFIDENCE}
        ELSE RoundDiv(SumSeq(confidences), Len(confidences))

\* The scores of the images whose OCR data has up to MaxTokens entries.
OcrScores ==
    UNION {get_tesseract_confidence(data) : data \in SeqsUpTo(OcrTokens, MaxTokens)}

\* --------------------------------------------------------- OCR text inputs
\* "SuperMart"
LineStore ==
    <<"S", "u", "p", "e", "r", "M", "a", "r", "t">>

\* "2 x Milk $7.00"
LineQty ==
    <<"2", " ", "x", " ", "M", "i", "l", "k", " ", "$", "7", ".", "0", "0">>

\* "ToTaL 3/14/24 9.50"
LineTotal ==
    <<"T", "o", "T", "a", "L", " ", "3", "/", "1", "4", "/", "2", "4", " ", "9", ".", "5", "0">>

\* "Tax 0.56"
LineTax ==
    <<"T", "a", "x", " ", "0", ".", "5", "6">>

\* "03/14/2024"
LineDate ==
    <<"0", "3", "/", "1", "4", "/", "2", "0", "2", "4">>

\* ""
LineEmpty ==
    <<>>

\* " "
LineBlank ==
    <<" ">>

\* "0 x Milk 4.99"
LineQtyZero ==
    <<"0", " ", "x", " ", "M", "i", "l", "k", " ", "4", ".", "9", "9">>

\* "2 x $4.99"
LineQtyOnly ==
    <<"2", " ", "x", " ", "$", "4", ".", "9", "9">>

\* "7X Gum 1,03"
LineQtySeven ==
    <<"7", "X", " ", "G", "u", "m", " ", "1", ",", "0", "3">>

\* "Cash 20.00"
LineCash ==
    <<"C", "a", "s", "h", " ", "2", "0", ".", "0", "0">>

\* "Bread 3.50"
LinePlain ==
    <<"B", "r", "e", "a", "d", " ", "3", ".", "5", "0">>

LinePool ==
    {LineStore, LineQty, LineTotal, LineTax, LineDate, LineEmpty, LineBlank,
     LineQtyZero, LineQtyOnly, LineQtySeven, LineCash, LinePlain}

\* "\n".join(ls)
RECURSIVE JoinLines(_)
JoinLines(ls) ==
    IF ls = <<>> THEN <<>>
    ELSE IF Len(ls) = 1 THEN ls[1]
         ELSE ls[1] \o <<"\n">> \o JoinLines(Tail(ls))

\* The texts pytesseract.image_to_string may return: up to MaxLines lines of
\* the pool, joined by line breaks (a last empty line makes a text that ends
\* with a line break).
OcrTexts == {JoinLines(ls) : ls \in SeqsUpTo(LinePool, MaxLines)}

\* The texts of the AI path, which hands the text to the language model and
\* returns it, and never reads it.
OcrTextsAi == {JoinLines(ls) : ls \in SeqsUpTo({LineStore, LineEmpty}, MaxLines)}

\* ---------------------------------------------------- deterministic extractor
NoCategory == "<unset>"

FILTER_WORDS ==
    {<<"t", "o", "t", "a", "l">>,
     <<"s", "u", "b", "t", "o", "t", "a", "l">>,
     <<"t", "a", "x">>,
     <<"b", "a", "l", "a", "n", "c", "e">>,
     <<"c", "h", "a", "n", "g", "e">>,
     <<"c", "a", "s", "h">>,
     <<"c", "a", "r", "d">>}

\* store = lines[0] if lines else "Unknown Store"
UnknownStore ==
    <<"U", "n", "k", "n", "o", "w", "n", " ", "S", "t", "o", "r", "e">>

StoreOf(ls) == IF ls # <<>> THEN ls[1] ELSE UnknownStore

\* The chain with the date test ahead of the keyword tests.
ClassifyLineDateFirst(line) ==
    IF Strip(line) = <<>> THEN "skip"
    ELSE IF DateSearch(line) THEN "date"
    ELSE IF Contains(Lower(line), <<"t", "o", "t", "a", "l">>) THEN "total"
    ELSE IF Contains(Lower(line), <<"t", "a", "x">>) THEN "tax"
    ELSE "item"

\* The branch of the if/elif chain one line of the loop takes (lines 203-229).
ClassifyLine(line) ==
    IF Strip(line) = <<>> THEN "skip"
    ELSE IF \/ Contains(Lower(line), <<"s", "u", "b", "t", "o", "t", "a", "l">>)
            \/ Contains(Lower(line), <<"t", "o", "t", "a", "l">>) THEN "total"
    ELSE IF Contains(Lower(line), <<"t", "a", "x">>) THEN "tax"
    ELSE IF DateSearch(line) THEN "date"
    ELSE "item"

\* numbers = re.findall(...); if numbers: value = float(numbers[-1])
LastDecimal(line, old) ==
    LET numbers == FindAllDecimals(line, 1)
    IN  IF numbers # <<>> THEN ParseCents(numbers[Len(numbers)]) ELSE old

\* The item branch up to the division: what the line yields.
\*   kind "none":  no price at the end, or an empty or filtered description
\*   kind "raise": int(qty_match.group(1)) is 0 and item_price / quantity
\*                 raises ZeroDivisionError
\*   kind "item":  an item; hasQty tells whether the quantity pattern matched
ParseItemLine(line_stripped) ==
    LET price_match == PriceSearch(line_stripped)
        description == Strip(price_match.group1)
        item_price  == ParseCents(price_match.group2)
        qty_match   == QtyMatch(description)
        quantity    == ParseInt(qty_match.group1)
        none        == [kind |-> "none", description |-> <<>>, quantity |-> 1,
                        total |-> 0, hasQty |-> FALSE]
    IN  IF ~price_match.matched THEN none
        ELSE IF description = <<>>
                \/ \E word \in FILTER_WORDS : Contains(Lower(description), word)
             THEN none
        ELSE IF ~qty_match.matched
             THEN [kind |-> "item", description |-> description, quantity |-> 1,
                   total |-> item_price, hasQty |-> FALSE]
        ELSE IF quantity = 0
             THEN [kind |-> "raise", description |-> Strip(qty_match.group2),
                   quantity |-> 0, total |-> item_price, hasQty |-> TRUE]
        ELSE [kind |-> "item", description |-> Strip(qty_match.group2),
              quantity |-> quantity, total |-> item_price, hasQty |-> TRUE]

\* The unit price with the quotient cut off instead of rounded.
UnitPriceFloor(item_price, quantity, hasQty) ==
    IF hasQty THEN {item_price \div quantity} ELSE {item_price}

\* unit_price = round(item_price / quantity, 2), or item_price without a
\* quantity marker: the values it can take.
UnitPrices(item_price, quantity, hasQty) ==
    IF hasQty THEN RoundDiv(item_price, quantity) ELSE {item_price}

\* ------------------------------------------------------------ JSON values
\* A decoded JSON value is a node [key, t, s, a]: t its type, s the text of a
\* string or number, a the elements of a list, the entries of a dict (nodes
\* that carry their key) or, for a string the code may index, its characters.
\* t = "invalid" stands for text json.loads rejects.
Node(t, s, a) == [key |-> "", t |-> t, s |-> s, a |-> a]

JNull == Node("null", "", <<>>)

JInvalid == Node("invalid", "", <<>>)

JStr(s) == Node("string", s, <<>>)

JNum(s) == Node("number", s, <<>>)

JList(elems) == Node("list", "", elems)

JDict(entries) == Node("dict", "", entries)

Entry(k, v) == [v EXCEPT !.key = k]

\* `k in d` and d[k] for a dict (the last entry of a repeated key wins)
HasKey(d, k) == \E i \in 1..Len(d.a) : d.a[i].key = k

GetKey(d, k) == d.a[Max({i \in 1..Len(d.a) : d.a[i].key = k})]

\* d[k] = v
SetKey(d, k, v) ==
    IF HasKey(d, k)
    THEN [d EXCEPT !.a = [i \in 1..Len(d.a) |->
                             IF d.a[i].key = k THEN Entry(k, v) ELSE d.a[i]]]
    ELSE [d EXCEPT !.a = Append(d.a, Entry(k, v))]

\* `category in CATEGORIES` (CATEGORIES is a list of strings: == on each)
InCategories(v) == v.t = "string" /\ v.s \in CATEGORIES

\* ------------------------------------------------------ language-model replies
\* The text of a completion is a sequence of tokens: a fence (three
\* backquotes), the tag "json" right after a fence, prose, or a payload (a
\* piece of text with the JSON value it decodes to).
Tok(k, v) == [k |-> k, v |-> v]

Fence == Tok("fence", JNull)

JsonTag == Tok("tag", JNull)

Prose == Tok("prose", JNull)

Payload(v) == Tok("payload", v)

\* A reply of groq_client.chat.completions.create: failed when the call
\* raises, else the content of the first choice.
Reply(failed, content) == [failed |-> failed, content |-> content]

FenceAt(c, i) == i <= Len(c) /\ c[i].k = "fence"

JsonFenceAt(c, i) == FenceAt(c, i) /\ i + 1 <= Len(c) /\ c[i + 1].k = "tag"

\* result.split("```json")[1].split("```")[0]
BetweenJsonFences(c) ==
    LET first == Min({i \in 1..Len(c) : JsonFenceAt(c, i)})
        rest  == SubSeq(c, first + 2, Len(c))
        nextj == {i \in 1..Len(rest) : JsonFenceAt(rest, i)}
        piece == IF nextj = {} THEN rest ELSE SubSeq(rest, 1, Min(nextj) - 1)
        nextf == {i \in 1..Len(piece) : FenceAt(piece, i)}
    IN  IF nextf = {} THEN piece ELSE SubSeq(piece, 1, Min(nextf) - 1)

\* result.split("```")[1].split("```")[0]
BetweenFences(c) ==
    LET first == Min({i \in 1..Len(c) : FenceAt(c, i)})
        rest  == SubSeq(c, first + 1, Len(c))
        nextf == {i \in 1..Len(rest) : FenceAt(rest, i)}
    IN  IF nextf = {} THEN rest ELSE SubSeq(rest, 1, Min(nextf) - 1)

\* if result.startswith("```"): result = ... (lines 104-105, 162-163)
StripFences(c) ==
    IF FenceAt(c, 1)
    THEN IF \E i \in 1..Len(c) : JsonFenceAt(c, i)
         THEN BetweenJsonFences(c)
         ELSE BetweenFences(c)
    ELSE c

\* json.loads: the text decodes when it is one payload of valid JSON.
JsonLoads(c) ==
    IF Len(c) = 1 /\ c[1].k = "payload" THEN c[1].v ELSE JInvalid

\* The ways a completion wraps a payload.
Wrappings(v) ==
    {<<Payload(v)>>,
     <<Fence, JsonTag, Payload(v), Fence>>,
     <<Fence, Payload(v), Fence>>,
     <<Fence, JsonTag, Payload(v)>>,
     <<Prose, Fence, JsonTag, Payload(v), Fence>>}

\* ------------------------------------------------------------- exceptions
\* str(e) of a ValueError the AI path raises: its text and what it carries.
Reason(msg, detail) == [msg |-> msg, detail |-> detail]

NoReason == Reason("", "")

\* isinstance(e, cls) for the exception classes the handlers name.
IsInstance(e, cls) ==
    \/ cls = "Exception"
    \/ cls = e
    \/ cls = "ValueError" /\ e = "JSONDecodeError"

\* --------------------------------------------------------- category assigner
\* The labels a categorizer reply lists: one of CATEGORIES, one outside.
Labels == {JStr("Groceries"), JStr("Snacks")}

\* The JSON values a categorizer reply may hold: lists of labels, a list of
\* a number, and the wrong shapes (a dict, null, a number, a two-character
\* string, no JSON at all).
CategorizerPayloads ==
    {JList(q) : q \in SeqsUpTo(Labels, MaxLabels)}
        \cup {JList(<<JNum("7")>>),
              JDict(<<Entry("categories", JList(<<JStr("Dining")>>))>>),
              JDict(<<>>), JNull, JNum("3"),
              Node("string", "ok", <<JStr("o"), JStr("k")>>),
              JInvalid}

CategorizerReplies ==
    {Reply(TRUE, <<>>)}
        \cup {Reply(FALSE, <<Payload(v)>>) : v \in CategorizerPayloads}
        \cup {Reply(FALSE, c) : c \in Wrappings(JList(<<JStr("Dining")>>))}

SetCategory(its, n, c) ==
    [i \in 1..Len(its) |-> IF i <= n THEN [its[i] EXCEPT !.category = c] ELSE its[i]]

\* The label taken as it is.
CoerceIdentity(v) == v.s

\* category if category in CATEGORIES else 'Uncategorized'
Coerce(v) == IF InCategories(v) THEN v.s ELSE "Uncategorized"

\* categorize_items_with_ai, for a non-empty list of items: the exception it
\* raises ("" for none) and the items it leaves, which it changes in place.
categorize_items_with_ai(its, reply) ==
    LET categories == JsonLoads(StripFences(reply.content))
    IN  IF reply.failed
        THEN [raised |-> "APIError", items |-> its]
        ELSE IF categories.t = "invalid"
        THEN [raised |-> "JSONDecodeError", items |-> its]
        \* len(categories) of None or a number, at the first item
        ELSE IF categories.t \in {"null", "number"}
        THEN [raised |-> "TypeError", items |-> its]
        \* categories[0] of a non-empty dict, whose keys are strings
        ELSE IF categories.t = "dict" /\ Len(categories.a) > 0
        THEN [raised |-> "KeyError", items |-> its]
        ELSE [raised |-> "",
              items  |-> [i \in 1..Len(its) |->
                            IF i <= Len(categories.a) /\ categories.t # "dict"
                            THEN [its[i] EXCEPT !.category = Coerce(categories.a[i])]
                            ELSE [its[i] EXCEPT !.category = "Uncategorized"]]]

\* A handler for ValueError only.
CategorizeCatchesDecodeOnly(e) == IsInstance(e, "ValueError")

\* except Exception as e: (line 264)
CategorizeCatches(e) == IsInstance(e, "Exception")

\* ------------------------------------------------------ AI structuring pipeline
\* The bound on the items of a structuring reply is MaxLabels as well.
\* The items a structuring reply may list: a category of CATEGORIES, one
\* outside, none, and an item that is no object.
ItemShapes ==
    {JDict(<<Entry("description", JStr("Milk")), Entry("category", JStr("Dining"))>>),
     JDict(<<Entry("description", JStr("Milk")), Entry("category", JStr("Snacks"))>>),
     JDict(<<Entry("id", JStr("a1")), Entry("description", JStr("Milk"))>>),
     JStr("Milk")}

StructuringPayloads ==
    {JDict(<<Entry("store", JStr("X")), Entry("items", JList(q))>>) :
         q \in SeqsUpTo(ItemShapes, MaxLabels)}
        \cup {JDict(<<Entry("error", JStr("unreadable")), Entry("reason", JStr("blurry"))>>),
              JDict(<<Entry("error", JStr("unreadable"))>>),
              JDict(<<Entry("error", JStr("partial")), Entry("store", JStr("X"))>>),
              JDict(<<Entry("store", JStr("X")), Entry("items", JNull)>>),
              JDict(<<Entry("store", JStr("X")), Entry("items", JDict(<<>>))>>),
              JList(<<>>), JList(<<JStr("error")>>), JNull, JNum("3"),
              JInvalid}

StructuringReplies ==
    {Reply(TRUE, <<>>)}
        \cup {Reply(FALSE, <<Payload(v)>>) : v \in StructuringPayloads}
        \cup {Reply(FALSE, c) :
                 c \in Wrappings(JDict(<<Entry("store", JStr("X")),
                                         Entry("items", JList(<<>>))>>))
                         \cup Wrappings(JInvalid)}

\* The gate with the threshold itself rejected.
GateRejectsAtThreshold(score) == score <= MIN_OCR_CONFIDENCE

\* The comparison the other way round.
GateRejectsAbove(score) == score > MIN_OCR_CONFIDENCE

\* if ocr_confidence < MIN_OCR_CONFIDENCE: raise ValueError (line 66)
GateRejects(score) == score < MIN_OCR_CONFIDENCE

\* The result of a step that may raise: the exception's class ("" for none),
\* its str(), and the value computed.
Raise(cls, why) == [raised |-> cls, reason |-> why, data |-> JNull]

Return(v) == [raised |-> "", reason |-> NoReason, data |-> v]

\* Lines 115-117 for one item, which must be a dict for `item['category'] =`.
CoerceItem(item) ==
    IF ~HasKey(item, "category") \/ ~InCategories(GetKey(item, "category"))
    THEN SetKey(item, "category", JStr("Uncategorized"))
    ELSE item

\* parsed_data.get('items', []) of a dict
ItemsOf(pd) == IF HasKey(pd, "items") THEN GetKey(pd, "items") ELSE JList(<<>>)

\* Lines 101-123 of parse_receipt_with_ai: decoding the reply's content.
DecodeStructured(content) ==
    LET parsed == JsonLoads(StripFences(content))
        its    == ItemsOf(parsed)
    IN  IF parsed.t = "invalid"
        THEN Raise("JSONDecodeError", Reason("Expecting value", ""))
        \* 'error' in None, 'error' in 3
        ELSE IF parsed.t \in {"null", "number"}
        THEN Raise("TypeError", NoReason)
        \* a list: ['error']['error'], or [].get
        ELSE IF parsed.t = "list"
        THEN IF \E i \in 1..Len(parsed.a) : parsed.a[i] = JStr("error")
             THEN Raise("TypeError", NoReason)
             ELSE Raise("AttributeError", NoReason)
        \* a string (without 'error' in it): str.get
        ELSE IF parsed.t = "string"
        THEN Raise("AttributeError", NoReason)
        ELSE IF HasKey(parsed, "error") /\ GetKey(parsed, "error").t = "string"
                /\ GetKey(parsed, "error").s = "unreadable"
        THEN Raise("ValueError",
                   Reason("Receipt text is unreadable or invalid",
                          IF HasKey(parsed, "reason")
                          THEN GetKey(parsed, "reason").s
                          ELSE "Text does not appear to be a valid receipt"))
        \* for item in None, for item in 3, and the first character of a string
        ELSE IF its.t \in {"null", "number"} \/ (its.t = "string" /\ its.s # "")
        THEN Raise("TypeError", NoReason)
        \* an item that is no dict (a key of a dict, a character of a string
        \* or a non-object element of a list): `in` or the assignment raises
        ELSE IF \E i \in 1..Len(its.a) : its.t # "list" \/ its.a[i].t # "dict"
        THEN Raise("TypeError", NoReason)
        ELSE IF its.t # "list"
        THEN Return(parsed)
        ELSE Return(SetKey(parsed, "items",
                           JList([i \in 1..Len(its.a) |-> CoerceItem(its.a[i])])))

\* f"item-{i+1}"
ItemId(i) ==
    CASE i = 1 -> "item-1" [] i = 2 -> "item-2" [] i = 3 -> "item-3"
      [] OTHER -> "item-n"

\* Lines 318-321 of scan_receipt_ai.
AssignIds(pd) ==
    LET its == ItemsOf(pd)
    IN  IF its.t # "list" \/ its.a = <<>> THEN pd
        ELSE SetKey(pd, "items",
                    JList([i \in 1..Len(its.a) |->
                              IF HasKey(its.a[i], "id") THEN its.a[i]
                              ELSE SetKey(its.a[i], "id", JStr(ItemId(i)))]))

\* The except clauses of scan_receipt_ai, in their order (lines 325-338).
AiHandler(e) ==
    IF IsInstance(e, "ValueError")
    THEN [status |-> 400, error |-> "Unable to parse receipt"]
    ELSE IF IsInstance(e, "JSONDecodeError")
    THEN [status |-> 500, error |-> "Invalid JSON response from AI"]
    ELSE [status |-> 500, error |-> "AI parsing failed"]

\* ------------------------------------------------------------------ state
VARIABLES
    AI_PARSING_ENABLED,  \* the configuration flag, read once at startup
    endpoint,            \* "scan" (/api/scan) or "scan_ai" (/api/scan-ai)
    pc,                  \* the request's position in its handler
    raw_text,            \* pytesseract.image_to_string(image)
    ocr_confidence,      \* get_tesseract_confidence(image), -1 before the OCR
    lines,               \* raw_text.splitlines()
    idx,                 \* the next line of the loop `for line in lines`
    store, date, total, tax, items,   \* the locals of scan_receipt
    parsed_data,         \* the decoded reply of parse_receipt_with_ai
    llm_calls,           \* calls of groq_client.chat.completions.create
    raised,              \* the class of the last exception raised, "" for none
    status,              \* the HTTP status of the response, 0 before it
    error,               \* the response's 'error' text, "" on success
    reason               \* the response's 'reason': str(e) of a ValueError

vars ==
    <<AI_PARSING_ENABLED, endpoint, pc, raw_text, ocr_confidence, lines, idx,
      store, date, total, tax, items, parsed_data, llm_calls, raised,
      status, error, reason>>

response_vars == <<pc, status, error, reason, raised>>

ocr_vars == <<raw_text, ocr_confidence, lines>>

scan_vars == <<idx, store, date, total, tax, items>>

config_vars == <<AI_PARSING_ENABLED, endpoint>>

Init ==
    /\ AI_PARSING_ENABLED \in BOOLEAN
    /\ endpoint \in {"scan", "scan_ai"}
    /\ pc = "request"
    /\ raw_text = <<>>
    /\ ocr_confidence = -1
    /\ lines = <<>>
    /\ idx = 1
    /\ store = <<>>
    /\ date = <<>>
    /\ total = 0
    /\ tax = 0
    /\ items = <<>>
    /\ parsed_data = JNull
    /\ llm_calls = 0
    /\ raised = ""
    /\ status = 0
    /\ error = ""
    /\ reason = NoReason

\* return jsonify({...}), code
Respond(code, text, why, exc) ==
    /\ pc' = "done"
    /\ status' = code
    /\ error' = text
    /\ reason' = why
    /\ raised' = exc

\* ------------------------------------------------------------ the uploads
\* request.files['file']: whether the part is there, its filename, and
\* whether Image.open can read it.
Upload(present, filename, readable) ==
    [present |-> present, filename |-> filename, readable |-> readable]

Uploads ==
    {Upload(FALSE, <<>>, FALSE),
     Upload(TRUE, <<>>, TRUE),
     Upload(TRUE, <<"r", ".", "P", "N", "G">>, TRUE),
     Upload(TRUE, <<"r", ".", "P", "N", "G">>, FALSE),
     Upload(TRUE, <<"r", ".", "p", "d", "f">>, TRUE),
     Upload(TRUE, <<"r">>, TRUE)}

allowed_extensions ==
    {<<"p", "n", "g">>, <<"j", "p", "g">>, <<"j", "p", "e", "g">>,
     <<"g", "i", "f">>, <<"b", "m", "p">>, <<"w", "e", "b", "p">>}

\* filename.rsplit('.', 1)[1].lower() if '.' in filename else ''
FileExt(filename) ==
    LET dots == {k \in 1..Len(filename) : filename[k] = "."}
    IN  IF dots = {} THEN <<>>
        ELSE Lower(SubSeq(filename, Max(dots) + 1, Len(filename)))

\* ------------------------------------------------------ /api/scan (lines 177-286)
\* Lines 179-187: the upload checks and Image.open.
ScanOpen ==
    /\ endpoint = "scan"
    /\ pc = "request"
    /\ \E up \in Uploads :
          IF ~up.present THEN Respond(400, "No file uploaded", NoReason, "")
          ELSE IF up.filename = <<>> THEN Respond(400, "No file selected", NoReason, "")
          ELSE IF ~up.readable
               THEN Respond(500, "cannot identify image file", NoReason, "UnidentifiedImageError")
          ELSE /\ pc' = "ocr"
               /\ UNCHANGED <<status, error, reason, raised>>
    /\ UNCHANGED <<config_vars, ocr_vars, scan_vars, parsed_data, llm_calls>>

\* Lines 188-199: the OCR pass, the confidence score and the locals.
ScanOcr ==
    /\ endpoint = "scan"
    /\ pc = "ocr"
    /\ \E text \in OcrTexts, score \in OcrScores :
          /\ raw_text' = text
          /\ ocr_confidence' = score
          /\ lines' = SplitLines(text)
          /\ store' = StoreOf(SplitLines(text))
    /\ date' = <<>>
    /\ total' = 0
    /\ tax' = 0
    /\ items' = <<>>
    /\ idx' = 1
    /\ pc' = "loop"
    /\ UNCHANGED <<config_vars, parsed_data, llm_calls, raised, status, error, reason>>

\* Lines 202-258: one iteration of the loop over the lines.  A quantity of 0
\* raises ZeroDivisionError, which `except ValueError` (line 257) does not
\* catch and `except Exception` (line 285) turns into the 500 response.
ScanLine ==
    /\ endpoint = "scan"
    /\ pc = "loop"
    /\ idx <= Len(lines)
    /\ LET line == lines[idx]
           cls  == ClassifyLine(line)
           r    == ParseItemLine(Strip(line))
       IN  IF cls = "item" /\ r.kind = "raise"
           THEN /\ Respond(500, "float division by zero", NoReason, "ZeroDivisionError")
                /\ UNCHANGED scan_vars
           ELSE /\ total' = IF cls = "total" THEN LastDecimal(line, total) ELSE total
                /\ tax' = IF cls = "tax" THEN LastDecimal(line, tax) ELSE tax
                /\ date' = IF cls = "date" THEN Strip(line) ELSE date
                /\ IF cls = "item" /\ r.kind = "item"
                   THEN \E unit_price \in UnitPrices(r.total, r.quantity, r.hasQty) :
                           items' = Append(items,
                                       [description |-> r.description,
                                        quantity    |-> r.quantity,
                                        unitPrice   |-> unit_price,
                                        total       |-> r.total,
                                        category    |-> NoCategory])
                   ELSE items' = items
                /\ idx' = idx + 1
                /\ UNCHANGED <<response_vars, store>>
    /\ UNCHANGED <<config_vars, ocr_vars, parsed_data, llm_calls>>

\* Lines 260-283: the categories and the response.
ScanRespond ==
    /\ endpoint = "scan"
    /\ pc = "loop"
    /\ idx > Len(lines)
    /\ IF items # <<>> /\ AI_PARSING_ENABLED
       THEN \E r \in CategorizerReplies :
               LET out == categorize_items_with_ai(items, r)
               IN  /\ llm_calls' = llm_calls + 1
                   /\ IF out.raised = ""
                      THEN /\ items' = out.items
                           /\ Respond(200, "", NoReason, "")
                      ELSE IF CategorizeCatches(out.raised)
                      THEN /\ items' = SetCategory(out.items, Len(out.items), "Uncategorized")
                           /\ Respond(200, "", NoReason, out.raised)
                      ELSE /\ items' = out.items
                           /\ Respond(500, out.raised, NoReason, out.raised)
       ELSE /\ items' = SetCategory(items, Len(items), "Uncategorized")
            /\ Respond(200, "", NoReason, "")
            /\ UNCHANGED llm_calls
    /\ UNCHANGED <<config_vars, ocr_vars, idx, store, date, total, tax, parsed_data>>

\* --------------------------------------------- /api/scan-ai (lines 288-338)
\* Lines 291-310: the flag, the upload checks and Image.open.
AiOpen ==
    /\ endpoint = "scan_ai"
    /\ pc = "request"
    /\ IF ~AI_PARSING_ENABLED
       THEN Respond(503, "AI parsing is disabled", NoReason, "")
       ELSE \E up \in Uploads :
               IF ~up.present THEN Respond(400, "No file provided", NoReason, "")
               ELSE IF up.filename = <<>>
                    THEN Respond(400, "No file selected", NoReason, "")
               ELSE IF FileExt(up.filename) \notin allowed_extensions
                    THEN Respond(400, "Invalid file type", NoReason, "")
               ELSE IF ~up.readable
                    THEN Respond(AiHandler("UnidentifiedImageError").status,
                                 AiHandler("UnidentifiedImageError").error,
                                 NoReason, "UnidentifiedImageError")
               ELSE /\ pc' = "ai_ocr"
                    /\ UNCHANGED <<status, error, reason, raised>>
    /\ UNCHANGED <<config_vars, ocr_vars, scan_vars, parsed_data, llm_calls>>

\* Lines 62-67 of parse_receipt_with_ai: the OCR pass and the confidence gate.
AiOcr ==
    /\ endpoint = "scan_ai"
    /\ pc = "ai_ocr"
    /\ \E text \in OcrTextsAi, score \in OcrScores :
          /\ raw_text' = text
          /\ ocr_confidence' = score
          /\ IF GateRejects(score)
             THEN Respond(AiHandler("ValueError").status, AiHandler("ValueError").error,
                          Reason("OCR confidence too low", ""), "ValueError")
             ELSE /\ pc' = "ai_call"
                  /\ UNCHANGED <<status, error, reason, raised>>
    /\ UNCHANGED <<config_vars, lines, scan_vars, parsed_data, llm_calls>>

\* Lines 73-123 and 316-338: the structuring call, the decoding of its reply
\* and the response.
AiStructure ==
    /\ endpoint = "scan_ai"
    /\ pc = "ai_call"
    /\ llm_calls' = llm_calls + 1
    /\ \E r \in StructuringReplies :
          LET out == IF r.failed THEN Raise("APIError", NoReason)
                     ELSE DecodeStructured(r.content)
          IN  IF out.raised = ""
              THEN /\ parsed_data' = AssignIds(out.data)
                   /\ Respond(200, "", NoReason, "")
              ELSE /\ parsed_data' = parsed_data
                   /\ Respond(AiHandler(out.raised).status, AiHandler(out.raised).error,
                              IF IsInstance(out.raised, "ValueError")
                              THEN out.reason ELSE NoReason,
                              out.raised)
    /\ UNCHANGED <<config_vars, ocr_vars, scan_vars>>

Next ==
    \/ ScanOpen
    \/ ScanOcr
    \/ ScanLine
    \/ ScanRespond
    \/ AiOpen
    \/ AiOcr
    \/ AiStructure

Spec == Init /\ [][Next]_vars

\* ------------------------------------------------------------------ claims
Abs(n) == IF n < 0 THEN -n ELSE n

OcrDone == ocr_confidence # -1

\* The items of the AI path's response.
AiItems == IF ItemsOf(parsed_data).t = "list" THEN ItemsOf(parsed_data).a ELSE <<>>

\* C1: in the AI-assisted scan the structuring call is made if and only if
\* the measured confidence is at least MIN_OCR_CONFIDENCE: below it the
\* request ends with the low-confidence error and without any call of the
\* language model, and a score equal to the threshold passes the gate.
C1_GateIffThreshold ==
    (endpoint = "scan_ai" /\ OcrDone) =>
        /\ ocr_confidence < MIN_OCR_CONFIDENCE =>
              /\ llm_calls = 0
              /\ pc = "done"
              /\ status = 400
              /\ reason.msg = "OCR confidence too low"
        /\ ocr_confidence >= MIN_OCR_CONFIDENCE =>
              /\ pc \in {"ai_call", "done"}
              /\ reason.msg # "OCR confidence too low"
              /\ pc = "done" => llm_calls = 1

C1_Witness ==
    /\ endpoint = "scan_ai"
    /\ pc = "done"
    /\ ocr_confidence = MIN_OCR_CONFIDENCE
    /\ llm_calls = 1
    /\ status = 200

\* C2: in the AI-assisted scan a reply that is no valid JSON after the fences
\* are stripped ends the request with the malformed-upstream-response error
\* (500, "Invalid JSON response from AI"), never with the response of the
\* low-confidence / unreadable branch.
C2_DecodeErrorIsDistinct ==
    (endpoint = "scan_ai" /\ pc = "done" /\ raised = "JSONDecodeError") =>
        /\ status = 500
        /\ error = "Invalid JSON response from AI"
        /\ error # "Unable to parse receipt"

\* C3: in the deterministic scan, when items were extracted and the
\* categorization call fails (the service, the decoding or the shape of the
\* reply), the request succeeds, every item is Uncategorized, and store,
\* date, total, tax and the items are otherwise as they were.
C3_CategorizationFailSafe ==
    [][(/\ endpoint = "scan"
        /\ pc = "loop"
        /\ llm_calls' = llm_calls + 1
        /\ raised' # "")
          => /\ items # <<>>
             /\ pc' = "done"
             /\ status' = 200
             /\ store' = store
             /\ date' = date
             /\ total' = total
             /\ tax' = tax
             /\ items' = [i \in 1..Len(items) |->
                             [items[i] EXCEPT !.category = "Uncategorized"]]]_vars

C3_Witness ==
    /\ endpoint = "scan"
    /\ pc = "done"
    /\ status = 200
    /\ llm_calls = 1
    /\ raised = "KeyError"
    /\ Len(items) = 2

\* C4: in every successful response of either scan every item has a
\* category of the closed set, whatever the language model returned.
C4_CategoriesClosed ==
    (pc = "done" /\ status = 200) =>
        /\ endpoint = "scan" =>
              \A i \in 1..Len(items) : items[i].category \in CATEGORIES
        /\ endpoint = "scan_ai" =>
              \A i \in 1..Len(AiItems) :
                  /\ HasKey(AiItems[i], "category")
                  /\ GetKey(AiItems[i], "category").t = "string"
                  /\ GetKey(AiItems[i], "category").s \in CATEGORIES

C4_Witness ==
    /\ endpoint = "scan"
    /\ pc = "done"
    /\ status = 200
    /\ llm_calls = 1
    /\ raised = ""
    /\ Len(items) = 2
    /\ items[1].category = "Groceries"
    /\ items[2].category = "Uncategorized"

\* C5 as stated: the deterministic scan neither classifies a line nor
\* returns a successful record when the measured confidence is below
\* MIN_OCR_CONFIDENCE.
C5_DeterministicScanGated ==
    (endpoint = "scan" /\ OcrDone /\ ocr_confidence < MIN_OCR_CONFIDENCE) =>
        /\ idx = 1
        /\ status # 200

\* C5, amended: the confidence gate is on the AI-assisted path only.  The
\* AI-assisted scan returns a successful record only for a confidence of at
\* least MIN_OCR_CONFIDENCE and calls the model only then; the deterministic
\* scan never rejects a request for its confidence.
C5_GateOnAiPathOnly ==
    /\ (endpoint = "scan_ai" /\ OcrDone /\ (status = 200 \/ llm_calls > 0))
          => ocr_confidence >= MIN_OCR_CONFIDENCE
    /\ endpoint = "scan" =>
          /\ reason.msg # "OCR confidence too low"
          /\ raised # "ValueError"
          /\ status # 400 \/ ~OcrDone

C5_Witness ==
    /\ endpoint = "scan"
    /\ pc = "done"
    /\ status = 200
    /\ ocr_confidence < MIN_OCR_CONFIDENCE
    /\ ocr_confidence # FALLBACK_CONFIDENCE
    /\ items # <<>>

\* The first line of ls that is not empty after trimming, 0 for none.
FirstNonEmpty(ls) ==
    LET ne == {i \in 1..Len(ls) : Strip(ls[i]) # <<>>}
    IN  IF ne = {} THEN 0 ELSE Min(ne)

\* C6: the store of the deterministic scan is the first non-empty line of
\* the text, also when the text begins with empty or whitespace-only lines,
\* and "Unknown Store" when the text is empty.
C6_StoreIsFirstNonEmptyLine ==
    (endpoint = "scan" /\ OcrDone) =>
        /\ FirstNonEmpty(lines) > 0 => store = lines[FirstNonEmpty(lines)]
        /\ raw_text = <<>> => store = UnknownStore

\* C7: a quantity marker of 0 is treated as no quantity marker: no division
\* by zero, no failed request, no item of quantity 0.
C7_ZeroQuantityGuarded ==
    endpoint = "scan" =>
        /\ raised # "ZeroDivisionError"
        /\ \A i \in 1..Len(items) : items[i].quantity # 0
        /\ (pc = "done" /\ OcrDone) => status = 200

\* C8 as stated: for every item, |unitPrice * quantity - total| <= 0.01
\* (one cent).
C8_UnitPriceWithinOneCent ==
    endpoint = "scan" =>
        \A i \in 1..Len(items) :
            Abs(items[i].unitPrice * items[i].quantity - items[i].total) <= 1

\* C8, amended: for every item, |unitPrice * quantity - total| is at most
\* half a cent for each unit, 0.005 * quantity.
C8_UnitPriceWithinHalfCentPerUnit ==
    endpoint = "scan" =>
        \A i \in 1..Len(items) :
            /\ items[i].quantity >= 1
            /\ 2 * Abs(items[i].unitPrice * items[i].quantity - items[i].total)
                  <= items[i].quantity

C8_Witness ==
    /\ endpoint = "scan"
    /\ \E i \in 1..Len(items) :
          /\ items[i].quantity = 7
          /\ items[i].total = 103
          /\ items[i].unitPrice = 15

\* C9: every item of the deterministic scan has a non-empty, trimmed
\* description, also when nothing follows the quantity marker.
C9_DescriptionNonEmpty ==
    endpoint = "scan" =>
        \A i \in 1..Len(items) :
            /\ items[i].description # <<>>
            /\ Strip(items[i].description) = items[i].description

\* C10: a line with "total" in it, in any letter case, is a total line only:
\* processing it appends no item and changes neither date nor tax, also when
\* it holds a date or ends in a price; the loop goes on to the next line.
C10_TotalLineOnlySetsTotal ==
    [][(/\ endpoint = "scan"
        /\ pc = "loop"
        /\ idx <= Len(lines)
        /\ Contains(Lower(lines[idx]), <<"t", "o", "t", "a", "l">>))
          => /\ items' = items
             /\ date' = date
             /\ tax' = tax
             /\ store' = store
             /\ pc' = "loop"
             /\ idx' = idx + 1]_vars

C10_Witness ==
    /\ endpoint = "scan"
    /\ pc = "loop"
    /\ lines = <<LineDate, LineTotal>>
    /\ idx = 3
    /\ date = LineDate
    /\ total = 950
    /\ items = <<>>

====
